---- MODULE Spec2Model ----
(***************************************************************************)
(* Model of scripts/qc/filter_inventory.py (the inventory filter: nine     *)
(* predicates, get_filter_results, parse_args and the batch loop of        *)
(* __main__) and of run_batch in                                           *)
(* scripts/reporting/batch_resolve_redcap_update_summary_scores.py.        *)
(*                                                                         *)
(* A CSV table is [cols : set of column names, rows : sequence of rows],   *)
(* a row a function from cols to cell texts ("" is an empty cell).  A      *)
(* DataFrame has the same shape with values instead of texts: <<n>> is the *)
(* number n, <<>> is NaN.  A boolean or value Series is                    *)
(* [ok |-> TRUE, v |-> sequence]; [ok |-> FALSE, ...] stands for the       *)
(* KeyError raised by indexing a column the frame does not have.           *)
(***************************************************************************)
EXTENDS Integers, Sequences, FiniteSets, TLC

VARIABLES
    files,      \* the input CSV files named by -i, in command-line order
    filter,     \* the FILTER argument
    verbose,    \* the -v flag
    pc,         \* position of __main__
    nread,      \* number of pd.read_csv calls made so far
    data,       \* the DataFrame of the current loop iteration
    result,     \* what get_filter_results returned in the current iteration
    all_out,    \* the list all_out
    output,     \* the CSV written to args.output: <<>> or <<table>>
    log,        \* the verbose messages printed so far
    issues,     \* resolver: the open issues returned by get_issues
    idsKind,    \* resolver: what extract_unique_subject_ids returns
    rpc,        \* resolver: position of run_batch
    scraped,    \* resolver: scraped_tuples, as indices into issues
    ran,        \* resolver: the commands run_command has run
    closed      \* resolver: issues given to prompt_close_or_comment

fvars == <<files, filter, verbose, pc, nread, data, result, all_out, output, log>>
rvars == <<issues, idsKind, rpc, scraped, ran, closed>>
vars == <<files, filter, verbose, pc, nread, data, result, all_out, output, log,
          issues, idsKind, rpc, scraped, ran, closed>>

----------------------------------------------------------------------------
(* Bounds of the model *)

MaxSources == 3
MaxRows == 2
PredRows == 2
MaxIssues == 2

----------------------------------------------------------------------------
(* Values, cells and frames *)

NaN == <<>>

Num(n) == <<n>>

CellInts == 0..9

Range(s) == {s[k] : k \in 1..Len(s)}

SeqsUpTo(S, n) == UNION {[1..m -> S] : m \in 0..n}

SelectIdx(n, Keep(_)) ==
    LET F[k \in 0..n] ==
            IF k = 0 THEN <<>>
            ELSE IF Keep(k) THEN Append(F[k - 1], k) ELSE F[k - 1]
    IN  F[n]

\* pd.read_csv on one cell: an empty cell is NaN, digits are a number
Digits == [n \in CellInts |-> ToString(n)]

ParseCell(s) == IF s = "" THEN NaN ELSE Num(CHOOSE n \in CellInts : Digits[n] = s)

\* to_csv(float_format="%.0f") on one value: NaN is an empty cell, a number
\* is written with no decimals
FormatCell(v) == IF v = NaN THEN "" ELSE Digits[v[1]]

read_csv(file) ==
    [cols |-> file.cols,
     rows |-> [k \in 1..Len(file.rows) |->
                  [c \in file.cols |-> ParseCell(file.rows[k][c])]]]

to_csv(df) ==
    [cols |-> df.cols,
     rows |-> [k \in 1..Len(df.rows) |->
                  [c \in df.cols |-> FormatCell(df.rows[k][c])]]]

----------------------------------------------------------------------------
(* pandas Series operations used by the predicates *)

KeyError == [ok |-> FALSE, v |-> <<>>]

Series(s) == [ok |-> TRUE, v |-> s]

\* inventory[c]
Col(inventory, c) ==
    IF c \in inventory.cols
    THEN Series([k \in 1..Len(inventory.rows) |-> inventory.rows[k][c]])
    ELSE KeyError

Lift(s, Test(_)) ==
    IF s.ok THEN Series([k \in 1..Len(s.v) |-> Test(s.v[k])]) ELSE KeyError

\* comparisons with NaN are False, except != which is True
Gt(s, n) == LET T(x) == x # NaN /\ x[1] > n IN Lift(s, T)

Lt(s, n) == LET T(x) == x # NaN /\ x[1] < n IN Lift(s, T)

Eq(s, n) == LET T(x) == x # NaN /\ x[1] = n IN Lift(s, T)

Ne(s, n) == LET T(x) == x = NaN \/ x[1] # n IN Lift(s, T)

IsNull(s) == LET T(x) == x = NaN IN Lift(s, T)

\* Series.max(): NaN values are skipped; NaN when nothing is left
SeriesMax(s) ==
    LET nums == {s.v[k][1] : k \in {j \in 1..Len(s.v) : s.v[j] # NaN}}
    IN  IF nums = {} THEN NaN ELSE Num(CHOOSE m \in nums : \A x \in nums : x <= m)

\* s < other, other a scalar that may be NaN
LtScalar(s, m) ==
    LET T(x) == x # NaN /\ m # NaN /\ x[1] < m[1] IN Lift(s, T)

\* a & b: both operands are evaluated, so a KeyError of either is raised
And(a, b) ==
    IF a.ok /\ b.ok THEN Series([k \in 1..Len(a.v) |-> a.v[k] /\ b.v[k]]) ELSE KeyError

----------------------------------------------------------------------------
(* The predicates *)

probably_not_missing_but_unmarked(inventory) ==
    And(Gt(Col(inventory, "non_nan_count"), 0), IsNull(Col(inventory, "missing")))

probably_missing_but_marked_present(inventory) ==
    And(Eq(Col(inventory, "non_nan_count"), 0), Eq(Col(inventory, "missing"), 0))

probably_missing_but_unmarked(inventory) ==
    And(Eq(Col(inventory, "non_nan_count"), 0), IsNull(Col(inventory, "missing")))

content_not_marked_complete(inventory) ==
    And(Gt(Col(inventory, "non_nan_count"), 0), Lt(Col(inventory, "complete"), 2))

missing_not_marked_complete(inventory) ==
    And(Eq(Col(inventory, "missing"), 1), Lt(Col(inventory, "complete"), 2))

less_content_than_max_batch(inventory) ==
    LET all == [ok |-> TRUE,
                v |-> [k \in 1..Len(files) |->
                          SeriesMax(Col(read_csv(files[k]), "non_nan_count"))]]
    IN  And(Gt(Col(inventory, "non_nan_count"), 0),
            LtScalar(Col(inventory, "non_nan_count"), SeriesMax(all)))

less_content_than_max(inventory) ==
    And(Gt(Col(inventory, "non_nan_count"), 0),
        LtScalar(Col(inventory, "non_nan_count"),
                 SeriesMax(Col(inventory, "non_nan_count"))))

has_content_but_marked_missing(inventory) ==
    And(Eq(Col(inventory, "missing"), 1), Gt(Col(inventory, "non_nan_count"), 0))

empty_and_not_complete(inventory) ==
    And(Eq(Col(inventory, "non_nan_count"), 0), Ne(Col(inventory, "complete"), 2))

empty_and_not_ignored(inventory) ==
    And(Eq(Col(inventory, "non_nan_count"), 0), Ne(Col(inventory, "exclude"), 1))

FILTER_LIST ==
    <<"probably_not_missing_but_unmarked",
      "probably_missing_but_marked_present",
      "probably_missing_but_unmarked",
      "content_not_marked_complete",
      "missing_not_marked_complete",
      "less_content_than_max",
      "has_content_but_marked_missing",
      "empty_and_not_complete",
      "empty_and_not_ignored">>

\* FILTERS[name](inventory)
FILTERS(name, inventory) ==
    CASE name = "probably_not_missing_but_unmarked" ->
            probably_not_missing_but_unmarked(inventory)
      [] name = "probably_missing_but_marked_present" ->
            probably_missing_but_marked_present(inventory)
      [] name = "probably_missing_but_unmarked" ->
            probably_missing_but_unmarked(inventory)
      [] name = "content_not_marked_complete" ->
            content_not_marked_complete(inventory)
      [] name = "missing_not_marked_complete" ->
            missing_not_marked_complete(inventory)
      [] name = "less_content_than_max" ->
            less_content_than_max(inventory)
      [] name = "has_content_but_marked_missing" ->
            has_content_but_marked_missing(inventory)
      [] name = "empty_and_not_complete" ->
            empty_and_not_complete(inventory)
      [] name = "empty_and_not_ignored" ->
            empty_and_not_ignored(inventory)

FILTERS_keys == Range(FILTER_LIST)

----------------------------------------------------------------------------
(* get_filter_results, parse_args, pd.concat *)

None == [isNone |-> TRUE, cols |-> {}, rows |-> <<>>]

Frame(df) == [isNone |-> FALSE, cols |-> df.cols, rows |-> df.rows]

\* inventorized_data.loc[index], index a boolean mask
Loc(df, mask) ==
    LET keep == SelectIdx(Len(df.rows), LAMBDA k : mask[k])
    IN  [cols |-> df.cols, rows |-> [j \in 1..Len(keep) |-> df.rows[keep[j]]]]

\* A defective variant: the missing column is filled in place before filtering
get_filter_results_fillna(inventorized_data, filter_function, verbose_) ==
    LET filled == [cols |-> inventorized_data.cols,
                   rows |-> [k \in 1..Len(inventorized_data.rows) |->
                               [c \in inventorized_data.cols |->
                                  IF c = "missing" /\ inventorized_data.rows[k][c] = NaN
                                  THEN Num(0) ELSE inventorized_data.rows[k][c]]]]
        index == FILTERS(filter_function, filled)
    IN  IF ~index.ok
        THEN [ret |-> None, arg |-> filled,
              printed |-> IF verbose_ THEN <<[msg |-> "KeyError", file |-> 0]>> ELSE <<>>]
        ELSE [ret |-> Frame(Loc(filled, index.v)), arg |-> filled, printed |-> <<>>]

\* ret: the value returned; arg: the caller's frame after the call;
\* printed: what the call printed
get_filter_results(inventorized_data, filter_function, verbose_) ==
    LET index == FILTERS(filter_function, inventorized_data)
    IN  IF ~index.ok
        THEN [ret |-> None, arg |-> inventorized_data,
              printed |-> IF verbose_ THEN <<[msg |-> "KeyError", file |-> 0]>> ELSE <<>>]
        ELSE [ret |-> Frame(Loc(inventorized_data, index.v)),
              arg |-> inventorized_data, printed |-> <<>>]

\* A defective variant: FILTER is taken without choices=
parse_args_unchecked(filter_choices, name) == TRUE

\* argparse accepts FILTER only when it is one of filter_choices
parse_args(filter_choices, name) == name \in filter_choices

\* result.empty
IsEmpty(df) == Len(df.rows) = 0 \/ df.cols = {}

RECURSIVE ConcatRows(_, _)
ConcatRows(frames, cols) ==
    IF frames = <<>> THEN <<>>
    ELSE LET f == Head(frames)
         IN  [k \in 1..Len(f.rows) |->
                 [c \in cols |-> IF c \in f.cols THEN f.rows[k][c] ELSE NaN]]
             \o ConcatRows(Tail(frames), cols)

\* A defective variant: join="inner", only the columns every frame has
concat_inner(frames) ==
    LET cols == {c \in UNION {frames[k].cols : k \in 1..Len(frames)} :
                    \A k \in 1..Len(frames) : c \in frames[k].cols}
    IN  [cols |-> cols, rows |-> ConcatRows(frames, cols)]

\* pd.concat(frames, sort=False) of a non-empty list: the union of the
\* columns, the rows in list order, NaN where a frame lacks a column
concat(frames) ==
    LET cols == UNION {frames[k].cols : k \in 1..Len(frames)}
    IN  [cols |-> cols, rows |-> ConcatRows(frames, cols)]

----------------------------------------------------------------------------
(* __main__ of filter_inventory.py *)

Terminated == pc \in {"exit(0)", "exit(1)", "exit(2)", "ValueError", "KeyError"}

\* the exit status of the process; an uncaught exception ends it with 1
ExitCode == CASE pc = "exit(0)" -> 0
              [] pc = "exit(1)" -> 1
              [] pc = "ValueError" -> 1
              [] pc = "KeyError" -> 1
              [] pc = "exit(2)" -> 2

Msg(m, k) == [msg |-> m, file |-> k]

\* line 110: args = parse_args(FILTERS.keys())
ParseArgs ==
    /\ pc = "parse_args"
    /\ pc' = IF parse_args(FILTERS_keys, filter) THEN "for" ELSE "exit(2)"
    /\ UNCHANGED <<files, filter, verbose, nread, data, result, all_out, output, log>>
    /\ UNCHANGED rvars

\* What line 116 does with a name that is not a key of FILTERS: KeyError
Lookup(name) == name \in FILTERS_keys

\* A defective variant of the missing-column branch: the source is skipped
\* and the loop goes on
AfterFailure_continue(k) == "for"

\* lines 118-121: sys.exit(1)
AfterFailure(k) == "exit(1)"

\* lines 114-134: one iteration of the loop over args.input
ProcessSource ==
    /\ pc = "for"
    /\ nread < Len(files)
    /\ \E k \in {nread + 1} : \E loaded \in {read_csv(files[k])} :
         /\ nread' = k
         /\ IF ~Lookup(filter)
            THEN /\ data' = loaded
                 /\ pc' = "KeyError"
                 /\ UNCHANGED <<result, all_out, log>>
            ELSE \E call \in {get_filter_results(loaded, filter, verbose)} :
                 /\ data' = call.arg
                 /\ result' = call.ret
                 /\ IF call.ret.isNone
                    THEN /\ pc' = AfterFailure(k)
                         /\ all_out' = all_out
                         /\ log' = log \o call.printed \o
                                   (IF verbose THEN <<Msg("failed", k)>> ELSE <<>>)
                    ELSE IF ~IsEmpty(call.ret)
                    THEN /\ pc' = "for"
                         /\ all_out' = Append(all_out, [cols |-> call.ret.cols,
                                                        rows |-> call.ret.rows])
                         /\ log' = log \o call.printed \o
                                   (IF verbose THEN <<Msg("used", k)>> ELSE <<>>)
                    ELSE /\ pc' = "for"
                         /\ all_out' = all_out
                         /\ log' = log \o call.printed \o
                                   (IF verbose THEN <<Msg("skipping", k)>> ELSE <<>>)
    /\ UNCHANGED <<files, filter, verbose, output>>
    /\ UNCHANGED rvars

\* lines 136-138: pd.concat(all_out).to_csv(args.output); sys.exit(0).
\* pd.concat raises ValueError("No objects to concatenate") on an empty list.
ConcatWrite ==
    /\ pc = "for"
    /\ nread = Len(files)
    /\ IF all_out = <<>>
       THEN /\ pc' = "ValueError"
            /\ output' = output
       ELSE /\ pc' = "exit(0)"
            /\ output' = <<to_csv(concat(all_out))>>
    /\ UNCHANGED <<files, filter, verbose, nread, data, result, all_out, log>>
    /\ UNCHANGED rvars

----------------------------------------------------------------------------
(* run_batch of batch_resolve_redcap_update_summary_scores.py *)

IssueLimit == 200

\* lines 30-42: the issues, among the first 200, whose title holds
\* title_string and that carry the label redcap_update_summary_scores.
\* The pdb.set_trace() of line 36 stops in the debugger; the operator is
\* taken to continue.
ScrapedOf(iss) ==
    LET n == IF Len(iss) < IssueLimit THEN Len(iss) ELSE IssueLimit
    IN  SelectIdx(n, LAMBDA k : iss[k].title /\ iss[k].label)

Scrape ==
    /\ rpc = "scrape"
    /\ scraped' = ScrapedOf(issues)
    /\ log' = IF verbose
              THEN log \o [j \in 1..Len(ScrapedOf(issues)) |->
                              Msg("found", ScrapedOf(issues)[j])]
              ELSE log
    /\ rpc' = "print"
    /\ UNCHANGED <<issues, idsKind, ran, closed>>
    /\ UNCHANGED <<files, filter, verbose, pc, nread, data, result, all_out, output>>

\* line 44: ', '.join([subject_ids ...]) raises TypeError unless every
\* subject_ids is a str
PrintFound ==
    /\ rpc = "print"
    /\ rpc' = IF scraped # <<>> /\ idsKind = "list" THEN "TypeError@44" ELSE "prompt"
    /\ UNCHANGED <<issues, idsKind, scraped, ran, closed>>
    /\ UNCHANGED fvars

\* lines 45-47: utils.prompt_y_n
Prompt ==
    /\ rpc = "prompt"
    /\ \E answer \in BOOLEAN : rpc' = IF answer THEN "loop" ELSE "aborted"
    /\ UNCHANGED <<issues, idsKind, scraped, ran, closed>>
    /\ UNCHANGED fvars

\* lines 49-68, one iteration: line 55 adds subject_ids to a list (TypeError
\* unless it is a list); line 56 passes the name command, which is bound
\* nowhere (NameError), so run_command is never called
ResolveIssue ==
    /\ rpc = "loop"
    /\ Len(closed) < Len(scraped)
    /\ rpc' = IF idsKind = "str" THEN "TypeError@55" ELSE "NameError@56"
    /\ log' = IF verbose
              THEN log \o <<Msg("resolving", scraped[Len(closed) + 1]),
                            Msg("unlocking", scraped[Len(closed) + 1])>>
              ELSE log
    /\ UNCHANGED <<issues, idsKind, scraped, ran, closed>>
    /\ UNCHANGED <<files, filter, verbose, pc, nread, data, result, all_out, output>>

\* the loop of line 49 is exhausted: run_batch returns
Return ==
    /\ rpc = "loop"
    /\ Len(closed) = Len(scraped)
    /\ rpc' = "done"
    /\ UNCHANGED <<issues, idsKind, scraped, ran, closed>>
    /\ UNCHANGED fvars

----------------------------------------------------------------------------
(* Inputs *)

AllCols == {"subject", "non_nan_count", "missing", "complete", "exclude", "site"}

\* the column sets of the inventories of the batch: a full inventory, and
\* one that has no missing column and carries a site column instead
Layouts == {AllCols \ {"site"}, AllCols \ {"missing"}}

PoolRows ==
    {[subject |-> "1", non_nan_count |-> "0", missing |-> "",
      complete |-> "0", exclude |-> "0", site |-> "7"],
     [subject |-> "2", non_nan_count |-> "2", missing |-> "1",
      complete |-> "1", exclude |-> "1", site |-> "8"]}

Project(row, cols) == [c \in cols |-> row[c]]

Table(cols, rows) ==
    [cols |-> cols, rows |-> [k \in 1..Len(rows) |-> Project(rows[k], cols)]]

\* an inventory holds one row per instance: no row occurs twice in a source
DistinctRows(rows) == \A i \in 1..Len(rows) : \A j \in 1..Len(rows) : i # j => rows[i] # rows[j]

Sources ==
    {Table(cols, rows) :
        cols \in Layouts, rows \in {r \in SeqsUpTo(PoolRows, MaxRows) : DistinctRows(r)}}

Batches == SeqsUpTo(Sources, MaxSources) \ {<<>>}

NoFrame == [cols |-> {}, rows |-> <<>>]

FilterIdle ==
    /\ files = <<>>
    /\ filter = ""
    /\ pc = "idle"
    /\ nread = 0
    /\ data = NoFrame
    /\ result = None
    /\ all_out = <<>>
    /\ output = <<>>
    /\ log = <<>>

ResolverIdle ==
    /\ issues = <<>>
    /\ idsKind = "list"
    /\ rpc = "idle"
    /\ scraped = <<>>
    /\ ran = <<>>
    /\ closed = <<>>

Init ==
    /\ files \in Batches
    /\ filter \in FILTERS_keys \cup {"no_such_filter"}
    /\ verbose \in BOOLEAN
    /\ pc = "parse_args"
    /\ nread = 0
    /\ data = NoFrame
    /\ result = None
    /\ all_out = <<>>
    /\ output = <<>>
    /\ log = <<>>
    /\ ResolverIdle

Next == ParseArgs \/ ProcessSource \/ ConcatWrite

Spec == Init /\ [][Next]_vars

Issues == SeqsUpTo([title : BOOLEAN, label : BOOLEAN], MaxIssues)

InitResolve ==
    /\ issues \in Issues
    /\ idsKind \in {"list", "str"}
    /\ verbose \in BOOLEAN
    /\ rpc = "scrape"
    /\ scraped = <<>>
    /\ ran = <<>>
    /\ closed = <<>>
    /\ FilterIdle

NextResolve == Scrape \/ PrintFound \/ Prompt \/ ResolveIssue \/ Return

SpecResolve == InitResolve /\ [][NextResolve]_vars

----------------------------------------------------------------------------
(* Inputs of the predicate check: one record of every combination of the   *)
(* four fields, placed before or after context rows that vary the count,   *)
(* in a batch whose second source holds a larger count                     *)

Records ==
    [subject : {"1"}, non_nan_count : {"0", "1", "2"}, missing : {"", "0", "1"},
     complete : {"0", "1", "2"}, exclude : {"0", "1"}, site : {"7"}]

ContextRows ==
    [subject : {"2"}, non_nan_count : {"0", "1", "2"}, missing : {""},
     complete : {"0"}, exclude : {"0"}, site : {"7"}]

RichSource ==
    Table(AllCols \ {"site"},
          <<[subject |-> "3", non_nan_count |-> "9", missing |-> "0",
             complete |-> "2", exclude |-> "0", site |-> "7"]>>)

PredSources ==
    {Table(AllCols \ {"site"}, IF front THEN <<probe>> \o ctx ELSE ctx \o <<probe>>) :
        probe \in Records, ctx \in SeqsUpTo(ContextRows, PredRows), front \in BOOLEAN}

InitPred ==
    /\ files \in {<<src, RichSource>> : src \in PredSources}
    /\ filter \in FILTERS_keys
    /\ verbose = FALSE
    /\ pc = "parse_args"
    /\ nread = 0
    /\ data = NoFrame
    /\ result = None
    /\ all_out = <<>>
    /\ output = <<>>
    /\ log = <<>>
    /\ ResolverIdle

SpecPred == InitPred /\ [][Next]_vars

----------------------------------------------------------------------------
(* The documented formulas (section 4.1 of the specification), per record  *)

Unset(v) == v = NaN

\* the largest non_nan_count among the rows of one frame
MaxCount(df) ==
    LET counts == {df.rows[k]["non_nan_count"][1] : k \in 1..Len(df.rows)}
    IN  CHOOSE m \in counts : \A x \in counts : x <= m

Documented(name, r, df) ==
    CASE name = "probably_not_missing_but_unmarked" ->
            r["non_nan_count"][1] > 0 /\ Unset(r["missing"])
      [] name = "probably_missing_but_marked_present" ->
            r["non_nan_count"][1] = 0 /\ r["missing"] = <<0>>
      [] name = "probably_missing_but_unmarked" ->
            r["non_nan_count"][1] = 0 /\ Unset(r["missing"])
      [] name = "content_not_marked_complete" ->
            r["non_nan_count"][1] > 0 /\ r["complete"][1] < 2
      [] name = "missing_not_marked_complete" ->
            r["missing"] = <<1>> /\ r["complete"][1] < 2
      [] name = "less_content_than_max" ->
            r["non_nan_count"][1] > 0 /\ r["non_nan_count"][1] < MaxCount(df)
      [] name = "has_content_but_marked_missing" ->
            r["missing"] = <<1>> /\ r["non_nan_count"][1] > 0
      [] name = "empty_and_not_complete" ->
            r["non_nan_count"][1] = 0 /\ r["complete"][1] # 2
      [] name = "empty_and_not_ignored" ->
            r["non_nan_count"][1] = 0 /\ r["exclude"][1] # 1

\* the columns a documented formula names
DocCols(name) ==
    CASE name \in {"probably_not_missing_but_unmarked",
                   "probably_missing_but_marked_present",
                   "probably_missing_but_unmarked",
                   "has_content_but_marked_missing"} -> {"non_nan_count", "missing"}
      [] name \in {"content_not_marked_complete",
                   "empty_and_not_complete"} -> {"non_nan_count", "complete"}
      [] name = "missing_not_marked_complete" -> {"missing", "complete"}
      [] name = "less_content_than_max" -> {"non_nan_count"}
      [] name = "empty_and_not_ignored" -> {"non_nan_count", "exclude"}

Known == filter \in FILTERS_keys

\* source k lacks a column the selected predicate names
Lacks(k) == ~(DocCols(filter) \subseteq files[k].cols)

\* the indices of the rows of source k that the documented formula selects
Chosen(k) ==
    LET df == read_csv(files[k])
    IN  SelectIdx(Len(df.rows), LAMBDA j : Documented(filter, df.rows[j], df))

\* the rows of the given sources that the documented formula selects, as the
\* CSV rows of the inputs, in source order then row order, with an empty
\* cell for every column of cols the source lacks
RECURSIVE ExpectedRows(_, _)
ExpectedRows(ks, cols) ==
    IF ks = <<>> THEN <<>>
    ELSE LET k == Head(ks)
             ch == Chosen(k)
         IN  [j \in 1..Len(ch) |->
                 [c \in cols |-> IF c \in files[k].cols
                                 THEN files[k].rows[ch[j]][c] ELSE ""]]
             \o ExpectedRows(Tail(ks), cols)

\* the sources, in order, that have the columns the predicate names
Sound == SelectIdx(Len(files), LAMBDA k : ~Lacks(k))

\* the sources with at least one selected row
Contributing == {k \in Range(Sound) : Chosen(k) # <<>>}

----------------------------------------------------------------------------
(* Claims about filter_inventory.py *)

\* the first source of the batch that lacks a column the predicate names
FirstLacking == CHOOSE k \in 1..Len(files) : Lacks(k) /\ \A j \in 1..(k - 1) : ~Lacks(j)

SomeLacking == \E k \in 1..Len(files) : Lacks(k)

\* C1: when a source of the batch fails because the predicate names a
\* column it lacks, the run still loads every source and ends with an output
\* holding the matches of every source that did not fail.
C1_FailureKeepsEarlierMatches ==
    (Terminated /\ Known /\ SomeLacking) =>
        /\ nread = Len(files)
        /\ output # <<>>
        /\ output[1].rows = ExpectedRows(Sound, output[1].cols)

\* C2: when every source is evaluated and none has a matching row, a
\* header-only table is still written and the run ends with exit code 0.
C2_EmptyBatchWritesHeader ==
    (Terminated /\ Known /\ ~SomeLacking /\ Contributing = {}) =>
        /\ pc = "exit(0)"
        /\ output # <<>>
        /\ output[1].rows = <<>>

\* C3: for each registered predicate, the rows get_filter_results returns
\* are exactly the rows of that source for which the documented formula
\* holds, in order; for less_content_than_max the maximum is that of the
\* same source, so a row holding its source's maximum is never returned.
C3_PredicateMatchesFormula ==
    (Known /\ nread >= 1 /\ ~Lacks(nread)) =>
        /\ ~result.isNone
        /\ result.rows = [j \in 1..Len(Chosen(nread)) |-> data.rows[Chosen(nread)[j]]]
        /\ filter = "less_content_than_max" =>
              \A j \in 1..Len(result.rows) :
                  result.rows[j]["non_nan_count"] # Num(MaxCount(data))

\* C3 witness: less_content_than_max has returned a row of a source whose
\* own maximum is smaller than a count held by another source of the batch.
C3_Witness ==
    /\ filter = "less_content_than_max"
    /\ nread = 1
    /\ Len(result.rows) >= 1
    /\ Len(data.rows) > Len(result.rows)
    /\ \E j \in 1..Len(data.rows) : data.rows[j]["non_nan_count"] = Num(MaxCount(data))
    /\ MaxCount(read_csv(files[2])) > MaxCount(data)

\* C4: when no source fails, the run writes an output whose rows are exactly
\* the rows the predicate selects in each source, in source order then row
\* order, and a source without matches signals no failure.
C4_OutputIsSelectedRows ==
    (Terminated /\ Known /\ ~SomeLacking) =>
        /\ pc = "exit(0)"
        /\ output # <<>>
        /\ output[1].rows = ExpectedRows(Sound, output[1].cols)

\* C5: with a filter name that is not registered, no source is ever read and
\* no output is ever written; the run ends in argument validation.
C5_UnknownFilterNoIO ==
    ~Known =>
        /\ nread = 0
        /\ data = NoFrame
        /\ output = <<>>
        /\ pc \in {"parse_args", "exit(2)"}

\* C5 witness: a run with an unknown filter name has been rejected.
C5_Witness == ~Known /\ pc = "exit(2)" /\ Len(files) >= 1

\* C6: a source lacking a column the predicate names yields a failure (None,
\* not an empty match), is not handled as a source without matches, and the
\* failure is reported with the source and the predicate.
C6_MissingColumnReported ==
    (Known /\ nread >= 1 /\ Lacks(nread)) =>
        /\ result.isNone
        /\ pc # "for"
        /\ \E m \in 1..Len(log) : log[m] = Msg("failed", nread)

\* C7: the columns of the written table are exactly the union of the columns
\* of the sources with at least one selected row, and a row from a source
\* lacking one of them has an empty cell there.
C7_ColumnUnion ==
    output # <<>> =>
        /\ output[1].cols = UNION {files[k].cols : k \in Contributing}
        /\ output[1].rows =
              ExpectedRows(Sound, UNION {files[k].cols : k \in Contributing})

\* C7 witness: a table written from two contributing sources with different
\* columns, so that some row has an empty cell in a column its source lacks.
C7_Witness ==
    /\ output # <<>>
    /\ \E k1 \in Contributing : \E k2 \in Contributing : files[k1].cols # files[k2].cols
    /\ \E j \in 1..Len(output[1].rows) : output[1].rows[j]["site"] = ""
    /\ \E j \in 1..Len(output[1].rows) : output[1].rows[j]["site"] # ""

\* C8: get_filter_results leaves the loaded frame as read_csv produced it,
\* on every path, and every returned row is a row of that frame.
C8_FrameUnchanged ==
    (Known /\ nread >= 1) =>
        /\ data = read_csv(files[nread])
        /\ result.isNone => (result.rows = <<>> /\ Lacks(nread))
        /\ ~result.isNone =>
              /\ result.cols = data.cols
              /\ Len(result.rows) <= Len(data.rows)
              /\ Range(result.rows) \subseteq Range(data.rows)

\* C8 witness: a call on the match path has been followed by a call on the
\* missing-column path, on a frame that holds an unset missing cell earlier.
C8_Witness ==
    /\ Known
    /\ nread = 2
    /\ all_out # <<>>
    /\ result.isNone
    /\ Len(data.rows) >= 1
    /\ \E j \in 1..Len(files[1].rows) : files[1].rows[j]["missing"] = ""

\* C10: once a source that lacks a needed column has been loaded, the run
\* is over with exit code 1, no later source has been loaded and no output
\* is written.
C10_FirstFailureAborts ==
    (Known /\ SomeLacking /\ nread >= FirstLacking) =>
        /\ pc = "exit(1)"
        /\ ExitCode = 1
        /\ nread = FirstLacking
        /\ output = <<>>

\* C10 witness: the run ended on a failing source with matches of an earlier
\* source collected and a later source never loaded.
C10_Witness ==
    /\ pc = "exit(1)"
    /\ all_out # <<>>
    /\ nread < Len(files)
    /\ output = <<>>

----------------------------------------------------------------------------
(* Claim about run_batch *)

Confirmed == rpc \in {"loop", "done", "TypeError@55", "NameError@56"}

Ended == rpc \in {"done", "aborted", "TypeError@44", "TypeError@55", "NameError@56"}

\* the commands of one issue, in the order of lines 55-66
CommandsOf(i) == <<[cmd |-> "unlock", issue |-> i],
                   [cmd |-> "recalculate", issue |-> i],
                   [cmd |-> "lock", issue |-> i]>>

RECURSIVE AllCommands(_)
AllCommands(is) ==
    IF is = <<>> THEN <<>> ELSE CommandsOf(Head(is)) \o AllCommands(Tail(is))

\* C9: once the operator has confirmed, the run executes for every scraped
\* issue the unlock, recalculate and relock commands in that order and then
\* closes or comments on the issue; without confirmation nothing is run.
C9_UnlockRecalculateLock ==
    /\ (Ended /\ Confirmed) => (ran = AllCommands(scraped) /\ closed = scraped)
    /\ ~Confirmed => (ran = <<>> /\ closed = <<>>)

====
